---- MODULE Spec2Model ----
(***************************************************************************)
(* Model of the bigram HMM part-of-speech tagger of src/p1.py (class      *)
(* Tagger): the tag set derived from the preprocessed training corpus,    *)
(* the three decoders eager_tag, viterbi_tag and forward_backward_tag,    *)
(* and calc_accuracy.                                                      *)
(*                                                                         *)
(* Number encoding.  The smoothed distributions (nltk WittenBellProbDist) *)
(* are a library outside the repository; a model is any pair of tables of *)
(* finite log-probabilities.  A log-probability x is represented exactly  *)
(* by the non-negative integer exp(x) (up to one common scale factor), so *)
(*     x + y        in the code is   LogAdd(x, y) = x * y   here,         *)
(*     x < y        is unchanged (exp is monotone),                       *)
(*     logsumexp    is the sum, and                                        *)
(*     min_log_prob (-float_info.max, the surrogate of log 0) is 0.       *)
(* Python sequences are 0-based, TLA+ sequences 1-based: sentence[k] of   *)
(* the code is sentence[k+1] here; a token (word, tag) is <<word, tag>>,  *)
(* so token[0] of the code is token[1] here.                              *)
(* A call either returns a value or raises; both are records built by     *)
(* Return and Raise.                                                       *)
(***************************************************************************)
EXTENDS Integers, Sequences, FiniteSets

VARIABLES tags, order, emissions, transitions, sentence, algo, pred_sent,
          test_sents, predictions, accuracy, pc

vars == <<tags, order, emissions, transitions, sentence, algo, pred_sent,
          test_sents, predictions, accuracy, pc>>

\* ------------------------------------------------------------------ bounds
\* longest input sentence handed to a decoder, boundary tokens included
MaxLen == 4
\* table entries start at weight 1; a model raises entries by MaxBoost in all
MaxBoost == 1
\* number of sentences of the test set handed to calc_accuracy
MaxTestSents == 2
\* longest raw sentence of that test set
MaxTestLen == 1

\* ----------------------------------------------------------------- values
Return(v) == [raised |-> "", value |-> v]
Raise(e) == [raised |-> e, value |-> <<>>]

min_log_prob == 0

LogAdd(x, y) == x * y

MaxVal(S) == CHOOSE m \in S : \A x \in S : x <= m

RECURSIVE SumSeq(_)
SumSeq(vals) == IF Len(vals) = 0 THEN 0 ELSE Head(vals) + SumSeq(Tail(vals))

SeqRange(s) == {s[i] : i \in 1..Len(s)}

\* ------------------------------------------------------------ preprocessing
Forms == {"A"}
UPos == {"A"}
GoldTags == {"A", "B"}

Lower(w) == CASE w = "A" -> "a" [] w = "B" -> "b" [] OTHER -> w

Tok(form, upos) == [form |-> form, upos |-> upos]

preprocess_sentence(raw) ==
    <<<<"<s>", "START">>>>
      \o [j \in 1..Len(raw) |-> <<Lower(raw[j].form), raw[j].upos>>]
      \o <<<<"</s>", "END">>>>

preprocess_sentences(sentences) ==
    [i \in 1..Len(sentences) |-> preprocess_sentence(sentences[i])]

\* the training corpora: none, one sentence with one tag, one with two tags
TrainCorpora ==
    {<<>>,
     << <<Tok("A", "A")>> >>,
     << <<Tok("A", "A"), Tok("A", "B")>> >>}

TagsOf(train_sents) ==
    UNION {{sent[j][2] : j \in 1..Len(sent)} : sent \in SeqRange(train_sents)}

\* the orders in which the set self.tags can be iterated
Orders(T) ==
    {s \in [1..Cardinality(T) -> T] : \A i, j \in 1..Cardinality(T) : s[i] = s[j] => i = j}

\* ------------------------------------------------------------------ models
\* the words a decoder can look up: interior words and the end marker
QueryWords == {Lower(f) : f \in Forms} \cup {"</s>"}

TransTags(T) == T \cup {"START", "END"}

Entries(T) ==
    {<<"E", t, w>> : t \in T, w \in QueryWords}
      \cup {<<"T", p, t>> : p \in TransTags(T), t \in TransTags(T)}

\* the weight tables over entries S whose entries exceed 1 by k in all
RECURSIVE Boosts(_, _)
Boosts(S, k) ==
    IF k = 0 THEN {[e \in S |-> 1]}
    ELSE LET P == Boosts(S, k - 1)
         IN P \cup {[f EXCEPT ![e] = @ + 1] : f \in P, e \in S}

init_smoothed_emission_dist(T, f) ==
    [t \in T |-> [w \in QueryWords |-> f[<<"E", t, w>>]]]

init_smoothed_transition_dist(T, f) ==
    [b \in TransTags(T) \X TransTags(T) |-> f[<<"T", b[1], b[2]>>]]

\* --------------------------------------------------------------- sentences
RawSentences(n) ==
    UNION {[1..k -> {Tok(f, u) : f \in Forms, u \in UPos}] : k \in 0..n}

\* what preprocess_sentences yields, and the inputs that miss a boundary marker
WellFormedSentences == {preprocess_sentence(r) : r \in RawSentences(MaxLen - 2)}

ShortSentences == {<<>>, <<<<"<s>", "START">>>>}

Sentences == WellFormedSentences \cup ShortSentences

WellFormed(s) ==
    /\ Len(s) >= 2
    /\ s[1] = <<"<s>", "START">>
    /\ s[Len(s)] = <<"</s>", "END">>

\* ------------------------------------------------------------------- max
\* max(..., key=value)[0] over a dict filled in the iteration order of
\* self.tags: the first key, in that order, that carries the largest value
MaxKey(d) ==
    LET best == MaxVal({d[t] : t \in DOMAIN d})
        first == CHOOSE i \in 1..Len(order) :
                    /\ d[order[i]] = best
                    /\ \A j \in 1..(i - 1) : d[order[j]] # best
    IN order[first]

\* --------------------------------------------------------------- eager_tag
EagerProbs(word, prev_tag) ==
    [tag \in tags |-> LogAdd(emissions[tag][word], transitions[<<prev_tag, tag>>])]

\* EagerLoop appending the input token, gold tag and all, to the prediction
RECURSIVE EagerLoopGoldToken(_, _, _)
EagerLoopGoldToken(sent, i, prev_tag) ==
    IF i > Len(sent) THEN <<>>
    ELSE LET word == sent[i][1]
             max_prob_tag == MaxKey(EagerProbs(word, prev_tag))
         IN <<sent[i]>> \o EagerLoopGoldToken(sent, i + 1, max_prob_tag)

\* for token in sentence[1:]: every token after the first, the last included
RECURSIVE EagerLoop(_, _, _)
EagerLoop(sent, i, prev_tag) ==
    IF i > Len(sent) THEN <<>>
    ELSE LET word == sent[i][1]
             max_prob_tag == MaxKey(EagerProbs(word, prev_tag))
         IN <<<<word, max_prob_tag>>>> \o EagerLoop(sent, i + 1, max_prob_tag)

\* eager_tag without its closing pred_sent.append(sentence[-1])
eager_tag_no_end_marker(sent) ==
    IF Len(sent) = 0 THEN Raise("IndexError")
    ELSE IF Len(sent) >= 2 /\ tags = {} THEN Raise("ValueError")
    ELSE Return(<<sent[1]>> \o EagerLoop(sent, 2, "START"))

eager_tag(sent) ==
    IF Len(sent) = 0 THEN Raise("IndexError")
    ELSE IF Len(sent) >= 2 /\ tags = {} THEN Raise("ValueError")
    ELSE Return(<<sent[1]>> \o EagerLoop(sent, 2, "START") \o <<sent[Len(sent)]>>)

\* ------------------------------------------------------------- viterbi_tag
\* viterbi[q,1]: the column of the first word after the start marker
ViterbiInitial(sent) ==
    [tag \in tags |->
        LogAdd(transitions[<<"START", tag>>], emissions[tag][sent[2][1]])]

\* for i in range(2, len(sentence)): one column per remaining token, the end
\* marker included
RECURSIVE ViterbiCols(_, _, _)
ViterbiCols(sent, i, viterbi) ==
    IF i > Len(sent) THEN viterbi
    ELSE LET token == sent[i][1]
             last == viterbi[Len(viterbi)]
             probs == [tag \in tags |->
                          MaxVal({LogAdd(LogAdd(last[prev_tag], transitions[<<prev_tag, tag>>]),
                                         emissions[tag][token]) : prev_tag \in tags})]
         IN ViterbiCols(sent, i + 1, Append(viterbi, probs))

ViterbiFinal(viterbi) ==
    [q \in {"END"} |->
        MaxVal({LogAdd(viterbi[Len(viterbi)][prev_tag], transitions[<<prev_tag, "END">>])
                   : prev_tag \in tags})]

ViterbiTable(sent) ==
    LET cols == ViterbiCols(sent, 3, <<ViterbiInitial(sent)>>)
    IN Append(cols, ViterbiFinal(cols))

\* the "backtrack": position i takes the largest entry of column i - 1
ViterbiBacktrack(sent, viterbi) ==
    <<<<"<s>", "START">>>>
      \o [i \in 1..(Len(sent) - 2) |-> <<sent[i + 1][1], MaxKey(viterbi[i])>>]
      \o <<<<"</s>", "END">>>>

viterbi_tag(sent) ==
    IF tags # {} /\ Len(sent) < 2 THEN Raise("IndexError")
    ELSE IF tags = {} THEN Raise("ValueError")
    ELSE Return(ViterbiBacktrack(sent, ViterbiTable(sent)))

\* ---------------------------------------------------- forward_backward_tag
\* the values of a dict in the iteration order of self.tags
InOrder(d) == [k \in 1..Len(order) |-> d[order[k]]]

MaxSeq(vals) == MaxVal(SeqRange(vals))

\* m + log(sum(exp(val - m))) is log(sum(exp(val))): in the encoding, the sum
logsumexp(vals) ==
    IF Len(vals) = 0 THEN min_log_prob
    ELSE LET m == MaxSeq(vals)
         IN IF m = min_log_prob THEN min_log_prob ELSE SumSeq(vals)

combine_dicts(dict1, dict2) == [key \in DOMAIN dict1 |-> LogAdd(dict1[key], dict2[key])]

ForwardInitial(sent) ==
    [tag \in tags |->
        LogAdd(transitions[<<"START", tag>>], emissions[tag][sent[2][1]])]

BackwardInitial == [tag \in tags |-> transitions[<<tag, "END">>]]

\* for i in range(2, len(sentence) - 1): token_f = sentence[i][0]
RECURSIVE ForwardCols(_, _, _)
ForwardCols(sent, i, forward) ==
    IF i > Len(sent) - 1 THEN forward
    ELSE LET token_f == sent[i][1]
             last == forward[Len(forward)]
             intermed_f == [tag \in tags |->
                 logsumexp(InOrder([prev_tag \in tags |->
                     LogAdd(LogAdd(last[prev_tag], transitions[<<prev_tag, tag>>]),
                            emissions[tag][token_f])]))]
         IN ForwardCols(sent, i + 1, Append(forward, intermed_f))

\* BackwardCols reading token_b one position too far to the right
RECURSIVE BackwardColsOffByOne(_, _, _)
BackwardColsOffByOne(sent, i, backward) ==
    IF i > Len(sent) - 1 THEN backward
    ELSE LET token_b == sent[Len(sent) - (i - 1) + 2][1]
             last == backward[Len(backward)]
             intermed_b == [tag \in tags |->
                 logsumexp(InOrder([next_tag \in tags |->
                     LogAdd(LogAdd(last[next_tag], transitions[<<tag, next_tag>>]),
                            emissions[next_tag][token_b])]))]
         IN BackwardColsOffByOne(sent, i + 1, Append(backward, intermed_b))

\* the same loop: token_b = sentence[len(sentence) - i][0]
RECURSIVE BackwardCols(_, _, _)
BackwardCols(sent, i, backward) ==
    IF i > Len(sent) - 1 THEN backward
    ELSE LET token_b == sent[Len(sent) - (i - 1) + 1][1]
             last == backward[Len(backward)]
             intermed_b == [tag \in tags |->
                 logsumexp(InOrder([next_tag \in tags |->
                     LogAdd(LogAdd(last[next_tag], transitions[<<tag, next_tag>>]),
                            emissions[next_tag][token_b])]))]
         IN BackwardCols(sent, i + 1, Append(backward, intermed_b))

ForwardFinal(forward) ==
    [q \in {"END"} |->
        logsumexp(InOrder([prev_tag \in tags |->
            LogAdd(forward[Len(forward)][prev_tag], transitions[<<prev_tag, "END">>])]))]

BackwardFinal(sent, backward) ==
    [q \in {"START"} |->
        logsumexp(InOrder([next_tag \in tags |->
            LogAdd(LogAdd(backward[Len(backward)][next_tag], transitions[<<"START", next_tag>>]),
                   emissions[next_tag][sent[2][1]])]))]

\* forward, before the final column is cut off
ForwardTable(sent) ==
    LET cols == ForwardCols(sent, 3, <<ForwardInitial(sent)>>)
    IN Append(cols, ForwardFinal(cols))

\* backward, before it is reversed
BackwardTable(sent) ==
    LET cols == BackwardCols(sent, 3, <<BackwardInitial>>)
    IN Append(cols, BackwardFinal(sent, cols))

Reverse(s) == [k \in 1..Len(s) |-> s[Len(s) + 1 - k]]

ForwardBackwardBacktrack(sent, forward, backward) ==
    <<<<"<s>", "START">>>>
      \o [i \in 1..(Len(sent) - 2) |->
            <<sent[i + 1][1], MaxKey(combine_dicts(forward[i], backward[i]))>>]
      \o <<<<"</s>", "END">>>>

forward_backward_tag(sent) ==
    IF tags # {} /\ Len(sent) < 2 THEN Raise("IndexError")
    ELSE IF tags = {} /\ Len(sent) >= 3 THEN Raise("ValueError")
    ELSE LET table_f == ForwardTable(sent)
             forward == SubSeq(table_f, 1, Len(table_f) - 1)
             backward == Tail(Reverse(BackwardTable(sent)))
         IN Return(ForwardBackwardBacktrack(sent, forward, backward))

\* ----------------------------------------------------------- calc_accuracy
RECURSIVE GCD(_, _)
GCD(x, y) == IF y = 0 THEN x ELSE GCD(y, x % y)

\* the quotient x / y of two counts, y > 0, as the fraction in lowest terms
Divide(x, y) == <<x \div GCD(x, y), y \div GCD(x, y)>>

\* AccuracyInner with total += 1.0 inside the if
RECURSIVE AccuracyInnerTotalInIf(_, _, _, _)
AccuracyInnerTotalInIf(pred, label_sent, j, counts) ==
    IF j > Len(label_sent) THEN counts
    ELSE LET pred_tag == pred[j][2]
             label_tag == label_sent[j][2]
         IN AccuracyInnerTotalInIf(pred, label_sent, j + 1,
                IF pred_tag = label_tag THEN <<counts[1] + 1, counts[2] + 1>> ELSE counts)

\* for j in range(0, len(label_sent)); counts is <<num_correct, total>>
RECURSIVE AccuracyInner(_, _, _, _)
AccuracyInner(pred, label_sent, j, counts) ==
    IF j > Len(label_sent) THEN counts
    ELSE LET pred_tag == pred[j][2]
             label_tag == label_sent[j][2]
             num_correct == IF pred_tag = label_tag THEN counts[1] + 1 ELSE counts[1]
         IN AccuracyInner(pred, label_sent, j + 1, <<num_correct, counts[2] + 1>>)

\* for i in range(0, len(self.test_sents))
RECURSIVE AccuracyOuter(_, _, _)
AccuracyOuter(preds, i, counts) ==
    IF i > Len(test_sents) THEN counts
    ELSE AccuracyOuter(preds, i + 1, AccuracyInner(preds[i], test_sents[i], 1, counts))

calc_accuracy(preds) ==
    LET counts == AccuracyOuter(preds, 1, <<0, 0>>)
    IN IF counts[2] = 0 THEN Raise("ZeroDivisionError")
       ELSE Return(Divide(counts[1], counts[2]))

\* a wrong tag for a token whose gold tag is t
AltTag(t) == IF t = "A" THEN "B" ELSE "A"

TestSets ==
    UNION {[1..k -> {preprocess_sentence(r) : r \in RawSentences(MaxTestLen)}]
              : k \in 0..MaxTestSents}

\* the taggings of a sentence, position by position the gold tag or a wrong one
Taggings(label_sent) ==
    {[j \in 1..Len(label_sent) |->
        <<label_sent[j][1],
          IF wrong[j] THEN AltTag(label_sent[j][2]) ELSE label_sent[j][2]>>]
        : wrong \in [1..Len(label_sent) -> BOOLEAN]}

\* the predictions aligned, sentence by sentence and token by token, with test
AlignedPredictions(test) ==
    {ps \in [1..Len(test) -> UNION {Taggings(test[i]) : i \in 1..Len(test)}] :
        \A i \in 1..Len(test) : ps[i] \in Taggings(test[i])}

\* ------------------------------------------------------------------ state
NoAccuracy == Return(<<>>)

Init ==
    /\ tags \in {TagsOf(preprocess_sentences(c)) : c \in TrainCorpora}
    /\ order \in Orders(tags)
    /\ \E f \in Boosts(Entries(tags), MaxBoost) :
          /\ emissions = init_smoothed_emission_dist(tags, f)
          /\ transitions = init_smoothed_transition_dist(tags, f)
    /\ sentence \in Sentences
    /\ algo = 0
    /\ pred_sent = Return(<<>>)
    /\ test_sents = <<>>
    /\ predictions = <<>>
    /\ accuracy = NoAccuracy
    /\ pc = "ready"

EagerTag ==
    /\ pc # "scored"
    /\ algo' = 1
    /\ pred_sent' = eager_tag(sentence)
    /\ pc' = "tagged"
    /\ UNCHANGED <<tags, order, emissions, transitions, sentence,
                   test_sents, predictions, accuracy>>

ViterbiTag ==
    /\ pc # "scored"
    /\ algo' = 2
    /\ pred_sent' = viterbi_tag(sentence)
    /\ pc' = "tagged"
    /\ UNCHANGED <<tags, order, emissions, transitions, sentence,
                   test_sents, predictions, accuracy>>

ForwardBackwardTag ==
    /\ pc # "scored"
    /\ algo' = 3
    /\ pred_sent' = forward_backward_tag(sentence)
    /\ pc' = "tagged"
    /\ UNCHANGED <<tags, order, emissions, transitions, sentence,
                   test_sents, predictions, accuracy>>

Next == EagerTag \/ ViterbiTag \/ ForwardBackwardTag

Spec == Init /\ [][Next]_vars

\* calc_accuracy on a test set and predictions aligned with it; the tagger is
\* the one trained on the empty corpus
InitAcc ==
    /\ tags = {}
    /\ order = <<>>
    /\ \E f \in Boosts(Entries({}), 0) :
          /\ emissions = init_smoothed_emission_dist({}, f)
          /\ transitions = init_smoothed_transition_dist({}, f)
    /\ sentence = <<>>
    /\ algo = 0
    /\ pred_sent = Return(<<>>)
    /\ test_sents \in TestSets
    /\ predictions \in AlignedPredictions(test_sents)
    /\ accuracy = NoAccuracy
    /\ pc = "ready"

CalcAccuracy ==
    /\ pc = "ready"
    /\ accuracy' = calc_accuracy(predictions)
    /\ pc' = "scored"
    /\ UNCHANGED <<tags, order, emissions, transitions, sentence, algo,
                   pred_sent, test_sents, predictions>>

NextAcc == CalcAccuracy

SpecAcc == InitAcc /\ [][NextAcc]_vars

\* ================================================================= claims
Returned == algo # 0 /\ pred_sent.raised = ""

Decode(a, sent) ==
    CASE a = 1 -> eager_tag(sent)
      [] a = 2 -> viterbi_tag(sent)
      [] a = 3 -> forward_backward_tag(sent)

\* the positions of the interior tokens of a sentence
Interior(sent) == 2..(Len(sent) - 1)

\* C1: for a well-formed sentence, each decoder returns as many tokens as it
\* was given, the i-th carrying the i-th input word.
C1_LengthPreserved ==
    (Returned /\ WellFormed(sentence)) =>
        /\ Len(pred_sent.value) = Len(sentence)
        /\ \A i \in 1..Len(sentence) : pred_sent.value[i][1] = sentence[i][1]

\* the joint score of tagging the interior words of sent with seq:
\* logP(t_1|START) + sum logP(word_i|t_i) + sum logP(t_i|t_{i-1}) + logP(END|t_n)
RECURSIVE JointFrom(_, _, _)
JointFrom(sent, seq, i) ==
    IF i > Len(seq) THEN transitions[<<seq[Len(seq)], "END">>]
    ELSE LogAdd(LogAdd(transitions[<<IF i = 1 THEN "START" ELSE seq[i - 1], seq[i]>>],
                       emissions[seq[i]][sent[i + 1][1]]),
                JointFrom(sent, seq, i + 1))

JointScore(sent, seq) == JointFrom(sent, seq, 1)

PredictedTags(sent, pred) == [i \in 1..(Len(sent) - 2) |-> pred[i + 1][2]]

\* the tags observed on training words: self.tags without the two sentinels
WordTags == tags \ {"START", "END"}

\* C2: the tags viterbi_tag returns for the interior words have the largest
\* joint score: no sequence of word tags of that length scores higher.  Stated
\* for the returns that hold word tags only, so that what refutes it is the
\* choice among word tags and not a sentinel tag in the candidate set.
C2_ViterbiOptimal ==
    (/\ Returned /\ algo = 2 /\ WellFormed(sentence) /\ Len(sentence) >= 3
     /\ \A i \in Interior(sentence) : pred_sent.value[i][2] \in WordTags) =>
        \A seq \in [1..(Len(sentence) - 2) -> WordTags] :
            JointScore(sentence, seq)
                <= JointScore(sentence, PredictedTags(sentence, pred_sent.value))

\* C3: no decoder tags an interior token START or END.
C3_NoSentinelInside ==
    (Returned /\ WellFormed(sentence)) =>
        \A i \in Interior(sentence) : pred_sent.value[i][2] \notin {"START", "END"}

\* C4: for a well-formed sentence, the sentence a decoder returns starts with
\* ('<s>', START) and ends with ('</s>', END).
C4_BoundaryPreserved ==
    (Returned /\ WellFormed(sentence)) =>
        /\ pred_sent.value[1] = <<"<s>", "START">>
        /\ pred_sent.value[Len(pred_sent.value)] = <<"</s>", "END">>

C4_Witness ==
    /\ Returned
    /\ algo = 1
    /\ WellFormed(sentence)
    /\ Len(sentence) = 4
    /\ pred_sent.value[Len(pred_sent.value)] = <<"</s>", "END">>

\* the sentences with the words of sent and any gold tags on the interior
Retaggings(sent) ==
    {[i \in 1..Len(sent) |->
        IF i \in Interior(sent) THEN <<sent[i][1], gold[i]>> ELSE sent[i]]
        : gold \in [1..Len(sent) -> GoldTags]}

\* C5: a decoder gives the same result for every sentence that has the
\* words of its input, whatever the gold tags of the interior tokens are.
C5_GoldTagsIgnored ==
    (algo # 0 /\ WellFormed(sentence)) =>
        \A other \in Retaggings(sentence) : Decode(algo, other) = pred_sent

C5_Witness ==
    /\ Returned
    /\ algo = 1
    /\ WellFormed(sentence)
    /\ \E other \in Retaggings(sentence) :
          \E i \in Interior(sentence) :
              /\ other[i][2] # sentence[i][2]
              /\ other[i][2] # pred_sent.value[i][2]
              /\ sentence[i][2] = pred_sent.value[i][2]

\* the token positions of the test set, and those where the prediction is right
Positions ==
    {p \in (1..Len(test_sents)) \X (1..(MaxTestLen + 2)) : p[2] <= Len(test_sents[p[1]])}

Matches == {p \in Positions : predictions[p[1]][p[2]][2] = test_sents[p[1]][p[2]][2]}

\* C6: for a non-empty test set, calc_accuracy returns the number of
\* positions tagged right, boundary tokens included, over the number of
\* positions: a value in [0, 1], 1 when every tag is right, 0 when none is.
C6_Accuracy ==
    (pc = "scored" /\ test_sents # <<>>) =>
        /\ accuracy.raised = ""
        /\ accuracy.value[2] > 0
        /\ accuracy.value[1] * Cardinality(Positions)
              = Cardinality(Matches) * accuracy.value[2]
        /\ 0 <= accuracy.value[1]
        /\ accuracy.value[1] <= accuracy.value[2]
        /\ (Matches = Positions => accuracy.value = <<1, 1>>)
        /\ (Matches = {} => accuracy.value = <<0, 1>>)

C6_Witness ==
    /\ pc = "scored"
    /\ Len(test_sents) = 2
    /\ accuracy.raised = ""
    /\ accuracy.value = <<2, 5>>

\* C7: on an empty test set calc_accuracy does not raise.
C7_EmptyTestSetGuarded ==
    (pc = "scored" /\ test_sents = <<>>) => accuracy.raised = ""

\* C8: with an empty training corpus, each decoder returns a prediction for
\* every well-formed sentence.
C8_EmptyTrainingReturns ==
    (algo # 0 /\ tags = {} /\ WellFormed(sentence)) => pred_sent.raised = ""

\* C9: for a sentence of fewer than two tokens, each decoder returns
\* without raising.
C9_ShortSentenceReturns ==
    (algo # 0 /\ Len(sentence) < 2) => pred_sent.raised = ""

final_f(sent) == ForwardTable(sent)[Len(ForwardTable(sent))]

final_b(sent) == BackwardTable(sent)[Len(BackwardTable(sent))]

\* C10: in forward_backward_tag, for a well-formed sentence with an interior
\* word, final_f['END'] and final_b['START'] are the same total.
C10_ForwardEqualsBackward ==
    (algo = 3 /\ WellFormed(sentence) /\ Len(sentence) >= 3) =>
        final_f(sentence)["END"] = final_b(sentence)["START"]

C10_Witness ==
    /\ Returned
    /\ algo = 3
    /\ Len(sentence) = 4
    /\ final_f(sentence)["END"] > Cardinality(tags) * Cardinality(tags)
    /\ final_b(sentence)["START"] = final_f(sentence)["END"]
====
